---- MODULE Spec2Model ----
(***************************************************************************)
(* Buyer lead intake: the buyers and buyer_history tables, the request     *)
(* handlers that write them (POST /api/buyers, PUT and DELETE              *)
(* /api/buyers/[id], POST /api/buyers/import) and the zod schemas that     *)
(* validate their input.                                                   *)
(*                                                                         *)
(* A handler is split at every `await` on the database: the code between   *)
(* two awaits runs without interruption on the event loop, each database   *)
(* statement is atomic, and the statements of different requests           *)
(* interleave freely.                                                      *)
(*                                                                         *)
(* Values of a nullable column are wrapped: <<>> is NULL, <<v>> is v.      *)
(* A JSON body or a parsed object is a function whose DOMAIN is the set of *)
(* keys that are present.                                                  *)
(***************************************************************************)
EXTENDS Integers, Sequences, FiniteSets, TLC

VARIABLES
  buyers,    \* the buyers table: a set of rows
  history,   \* the buyer_history table: its rows in insertion order
  nextId,    \* the next id the database generates for a buyer
  now,       \* the wall clock, in milliseconds
  nreq,      \* the number of requests received so far
  pc,        \* pc[p]: where the handler run by p stands
  req,       \* req[p]: the request p handles and the handler's local variables
  resp,      \* resp[p]: the response p sent last, with what its handler did
  users      \* the users table: a set of rows

vars == <<buyers, history, nextId, now, nreq, pc, req, resp, users>>

(* ------------------------------ bounds --------------------------------- *)

NumProcs == 2
MaxTime == 2
MaxRequests == 3
MaxRows == 3
MaxImports == 1

Procs == 1..NumProcs
Users == {"u1", "u2"}

(* ------------------------------ strings -------------------------------- *)

Digits == {"0", "1", "2", "3", "4", "5", "6", "7", "8", "9"}

CharAt(s, i) == SubSeq(s, i, i)

AllDigits(s) == \A i \in 1..Len(s) : CharAt(s, i) \in Digits

DigitVal(c) ==
  CASE c = "0" -> 0 [] c = "1" -> 1 [] c = "2" -> 2 [] c = "3" -> 3
    [] c = "4" -> 4 [] c = "5" -> 5 [] c = "6" -> 6 [] c = "7" -> 7
    [] c = "8" -> 8 [] c = "9" -> 9

\* The length of the longest prefix of s, from position i on, made of digits.
RECURSIVE DigitRun(_, _)
DigitRun(s, i) ==
  IF i <= Len(s) /\ CharAt(s, i) \in Digits THEN 1 + DigitRun(s, i + 1) ELSE 0

RECURSIVE DigitsValue(_, _, _)
DigitsValue(s, i, n) ==
  IF n = 0 THEN 0
  ELSE 10 * DigitsValue(s, i, n - 1) + DigitVal(CharAt(s, i + n - 1))

\* parseInt(val, 10) on a trimmed cell: an optional sign, then the leading
\* digits; NaN when there is no digit.
ParseInt(s) ==
  LET signed == Len(s) >= 1 /\ CharAt(s, 1) \in {"-", "+"}
      first  == IF signed THEN 2 ELSE 1
      n      == DigitRun(s, first)
      mag    == DigitsValue(s, first, n)
  IN IF n = 0 THEN [nan |-> TRUE, val |-> 0]
     ELSE [nan |-> FALSE,
           val |-> IF signed /\ CharAt(s, 1) = "-" THEN 0 - mag ELSE mag]

Some(v) == <<v>>
None == <<>>

(* ------------------------------ enums ---------------------------------- *)

cityEnum == {"Chandigarh", "Mohali", "Zirakpur", "Panchkula", "Other"}
propertyTypeEnum == {"Apartment", "Villa", "Plot", "Office", "Retail"}
bhkEnum == {"1", "2", "3", "4", "Studio"}
purposeEnum == {"Buy", "Rent"}
timelineEnum == {"0-3m", "3-6m", ">6m", "Exploring"}
sourceEnum == {"Website", "Referral", "Walk-in", "Call", "Other"}
statusEnum == {"New", "Qualified", "Contacted", "Visited", "Negotiation",
               "Converted", "Dropped"}

\* The keys of the object schemas, in the order of their shape.
SchemaKeys == <<"fullName", "email", "phone", "city", "propertyType", "bhk",
                "purpose", "budgetMin", "budgetMax", "timeline", "source",
                "status", "notes", "tags">>

CsvSchemaKeys == <<"fullName", "email", "phone", "city", "propertyType",
                   "bhk", "purpose", "budgetMin", "budgetMax", "timeline",
                   "source", "notes", "tags", "status">>

KeySet(keys) == {keys[i] : i \in 1..Len(keys)}

Has(o, k) == k \in DOMAIN o

(* ---------------------------- field rules ------------------------------ *)

Trim(s) ==
  LET Blank(c) == c \in {" ", "\t", "\r"}
      lo == CHOOSE i \in 1..(Len(s) + 1) :
              /\ \A j \in 1..(i - 1) : Blank(CharAt(s, j))
              /\ i <= Len(s) => ~Blank(CharAt(s, i))
      hi == CHOOSE i \in 0..Len(s) :
              /\ \A j \in (i + 1)..Len(s) : Blank(CharAt(s, j))
              /\ i >= 1 => ~Blank(CharAt(s, i))
  IN IF lo > hi THEN "" ELSE SubSeq(s, lo, hi)

\* s.split(sep): the pieces of s between the occurrences of the character sep.
RECURSIVE SplitOn(_, _)
SplitOn(s, sep) ==
  IF \E i \in 1..Len(s) : CharAt(s, i) = sep
  THEN LET i == CHOOSE j \in 1..Len(s) :
                  /\ CharAt(s, j) = sep
                  /\ \A k \in 1..(j - 1) : CharAt(s, k) # sep
       IN <<SubSeq(s, 1, i - 1)>> \o SplitOn(SubSeq(s, i + 1, Len(s)), sep)
  ELSE <<s>>

MapTrim(xs) == [i \in 1..Len(xs) |-> Trim(xs[i])]

NonEmpty(x) == x # ""

\* z.string().email(): one "@" with a name before it and a dotted domain
\* after it.
IsEmail(s) ==
  \E a \in 2..(Len(s) - 3) :
    /\ CharAt(s, a) = "@"
    /\ \A j \in 1..Len(s) : j # a => CharAt(s, j) \notin {"@", " "}
    /\ \E d \in (a + 2)..(Len(s) - 1) : CharAt(s, d) = "."

\* /^\d{10,15}$/
IsPhone(s) == Len(s) >= 10 /\ Len(s) <= 15 /\ AllDigits(s)

\* The rule of one key of createBuyerSchema, for a value v that is present.
CreateFieldOk(k, v) ==
  CASE k = "fullName" -> Len(v) >= 2 /\ Len(v) <= 80
    [] k = "email" -> v = "" \/ IsEmail(v)
    [] k = "phone" -> IsPhone(v)
    [] k = "city" -> v \in cityEnum
    [] k = "propertyType" -> v \in propertyTypeEnum
    [] k = "bhk" -> v \in bhkEnum
    [] k = "purpose" -> v \in purposeEnum
    [] k = "budgetMin" -> v >= 0
    [] k = "budgetMax" -> v >= 0
    [] k = "timeline" -> v \in timelineEnum
    [] k = "source" -> v \in sourceEnum
    [] k = "status" -> v \in statusEnum
    [] k = "notes" -> Len(v) <= 1000
    [] k = "tags" -> TRUE

\* The keys that neither .optional() nor .default() covers.
RequiredKeys == {"fullName", "phone", "city", "propertyType", "purpose",
                 "timeline", "source"}

\* JavaScript truthiness of data[k]: undefined, '' and 0 are falsy.
TruthyStr(o, k) == Has(o, k) /\ o[k] # ""
TruthyNum(o, k) == Has(o, k) /\ o[k] # 0

\* First .refine(): BHK is required for Apartment and Villa.
BhkRefine(data) ==
  ~(/\ Has(data, "propertyType")
    /\ data["propertyType"] \in {"Apartment", "Villa"}
    /\ ~TruthyStr(data, "bhk"))

\* Second .refine(): budgetMax >= budgetMin when both are truthy.
BudgetRefine(data) ==
  ~(/\ TruthyNum(data, "budgetMin")
    /\ TruthyNum(data, "budgetMax")
    /\ data["budgetMax"] < data["budgetMin"])

RefineIssues(data) ==
  (IF BhkRefine(data) THEN <<>> ELSE <<"bhk">>)
    \o (IF BudgetRefine(data) THEN <<>> ELSE <<"budgetMax">>)

Parsed(issues, data) ==
  IF issues = <<>> THEN [ok |-> TRUE, data |-> data, issues |-> <<>>]
  ELSE [ok |-> FALSE, data |-> <<>>, issues |-> issues]

\* Mutant: status is set by the schema and refused as an input.
createBuyerSchemaOwnStatus(body) ==
  LET fieldIssues ==
        SelectSeq(SchemaKeys,
                  LAMBDA k : IF Has(body, k)
                             THEN k = "status" \/ ~CreateFieldOk(k, body[k])
                             ELSE k \in RequiredKeys)
      data == [k \in (DOMAIN body \cap KeySet(SchemaKeys)) \cup {"status", "tags"} |->
                 IF Has(body, k) THEN body[k]
                 ELSE IF k = "status" THEN "New" ELSE <<>>]
  IN IF fieldIssues # <<>> THEN Parsed(fieldIssues, data)
     ELSE Parsed(RefineIssues(data), data)

\* createBuyerSchema.parse(body): unknown keys are stripped, status and tags
\* get their defaults, the refinements run once every field has passed.
createBuyerSchema(body) ==
  LET fieldIssues ==
        SelectSeq(SchemaKeys,
                  LAMBDA k : IF Has(body, k) THEN ~CreateFieldOk(k, body[k])
                             ELSE k \in RequiredKeys)
      data == [k \in (DOMAIN body \cap KeySet(SchemaKeys)) \cup {"status", "tags"} |->
                 IF Has(body, k) THEN body[k]
                 ELSE IF k = "status" THEN "New" ELSE <<>>]
  IN IF fieldIssues # <<>> THEN Parsed(fieldIssues, data)
     ELSE Parsed(RefineIssues(data), data)

\* Mutant: the update schema lets every value through.
updateBuyerSchemaLax(body) == Parsed(<<>>, body)

\* updateBuyerSchema = createBuyerSchema.partial().extend({id, updatedAt}):
\* every key of the create schema becomes optional, the defaults of status
\* and tags still apply to an absent key, and the two refinements of the
\* create schema are not carried over. id and updatedAt are the path
\* parameter and the stored Date the handler puts into the object; both pass.
updateBuyerSchema(body) ==
  LET fieldIssues ==
        SelectSeq(SchemaKeys,
                  LAMBDA k : Has(body, k) /\ ~CreateFieldOk(k, body[k]))
      data == [k \in (DOMAIN body \cap (KeySet(SchemaKeys) \cup {"id", "updatedAt"}))
                       \cup {"status", "tags"} |->
                 IF Has(body, k) THEN body[k]
                 ELSE IF k = "status" THEN "New" ELSE <<>>]
  IN Parsed(fieldIssues, data)

(* ------------------------ csvImportRowSchema --------------------------- *)

\* z.string().transform(val => val ? parseInt(val, 10) : undefined)
\*   .pipe(z.number().int().min(0).optional())
\* on a cell that is present: [ok, present, val].
CsvBudget(cell) ==
  IF cell = "" THEN [ok |-> TRUE, present |-> FALSE, val |-> 0]
  ELSE LET n == ParseInt(cell)
       IN [ok |-> ~n.nan /\ n.val >= 0, present |-> TRUE, val |-> n.val]

\* val ? val.split(',').map(tag => tag.trim()).filter(Boolean) : []
CsvTags(cell) ==
  IF cell = "" THEN <<>> ELSE SelectSeq(MapTrim(SplitOn(cell, ",")), NonEmpty)

\* The keys of csvImportRowSchema that must be present in rowData: the seven
\* required fields and the two budgets, whose schema starts with z.string().
CsvRequiredKeys == RequiredKeys \cup {"budgetMin", "budgetMax"}

CsvFieldOk(k, cell) ==
  CASE k = "fullName" -> Len(cell) >= 2 /\ Len(cell) <= 80
    [] k = "email" -> cell = "" \/ IsEmail(cell)
    [] k = "phone" -> IsPhone(cell)
    [] k = "city" -> cell \in cityEnum
    [] k = "propertyType" -> cell \in propertyTypeEnum
    [] k = "bhk" -> cell = "" \/ cell \in bhkEnum
    [] k = "purpose" -> cell \in purposeEnum
    [] k = "budgetMin" -> CsvBudget(cell).ok
    [] k = "budgetMax" -> CsvBudget(cell).ok
    [] k = "timeline" -> cell \in timelineEnum
    [] k = "source" -> cell \in sourceEnum
    [] k = "notes" -> Len(cell) <= 1000
    [] k = "tags" -> TRUE
    [] k = "status" -> cell \in statusEnum

\* The value a valid cell is parsed to.
CsvValue(k, cell) ==
  CASE k \in {"budgetMin", "budgetMax"} -> CsvBudget(cell).val
    [] k = "tags" -> CsvTags(cell)
    [] OTHER -> cell

\* csvImportRowSchema.parse(rowData), rowData a function from the header's
\* names to cells. An empty budget cell parses to undefined (no key); status
\* defaults to 'New' when the header has no status column.
csvImportRowSchema(rowData) ==
  LET fieldIssues ==
        SelectSeq(CsvSchemaKeys,
                  LAMBDA k : IF Has(rowData, k) THEN ~CsvFieldOk(k, rowData[k])
                             ELSE k \in CsvRequiredKeys)
      keys == {k \in DOMAIN rowData \cap KeySet(CsvSchemaKeys) :
                 k \in {"budgetMin", "budgetMax"} => rowData[k] # ""}
      data == [k \in keys \cup {"status"} |->
                 IF Has(rowData, k) THEN CsvValue(k, rowData[k]) ELSE "New"]
  IN IF fieldIssues # <<>> THEN Parsed(fieldIssues, data)
     ELSE Parsed(RefineIssues(data), data)

(* ------------------------------ tables --------------------------------- *)

Columns == KeySet(SchemaKeys)

\* db.insert(buyers).values({...data, ownerId}): the columns data does not
\* name are NULL, id and updatedAt get the defaults of the table.
BuyerRow(id, owner, ts, data) ==
  [id |-> id, ownerId |-> owner, updatedAt |-> ts,
   cols |-> [c \in Columns |-> IF Has(data, c) THEN Some(data[c]) ELSE None]]

\* db.insert(buyerHistory).values({buyerId, changedBy, diff})
HistoryRow(id, user, diff) == [buyerId |-> id, changedBy |-> user, diff |-> diff]

CreatedDiff == [created |-> [old |-> None, new |-> Some("New buyer created")]]
ImportedDiff == [created |-> [old |-> None, new |-> Some("Imported from CSV")]]

\* Mutant: the select looks the buyer up by its id alone.
SelectById(table, id, user) == {b \in table : b.id = id}

\* select().from(buyers).where(and(eq(id), eq(ownerId))).limit(1)
SelectOwned(table, id, user) == {b \in table : b.id = id /\ b.ownerId = user}

\* A row of the users table. The accounts of the two users whose requests
\* the buyers handlers serve.
UserRow(id, email) == [id |-> id, email |-> email]

Accounts == {UserRow(u, u \o "@x.io") : u \in Users}

\* update(buyers).set({...validatedData, updatedAt}).where(eq(buyers.id, id)):
\* the columns validatedData names are overwritten, whoever owns the row and
\* whatever its updatedAt is by now.
UpdateRow(b, data, ts) ==
  [b EXCEPT !.updatedAt = ts,
            !.cols = [c \in Columns |->
                        IF Has(data, c) THEN Some(data[c]) ELSE b.cols[c]]]

UpdateById(table, id, data, ts) ==
  {IF b.id = id THEN UpdateRow(b, data, ts) ELSE b : b \in table}

\* delete(buyers).where(eq(buyers.id, id)); the history rows of the buyer go
\* with it (foreign key of buyer_history).
DeleteById(table, id) == {b \in table : b.id # id}
CascadeHistory(h, id) == SelectSeq(h, LAMBDA e : e.buyerId # id)

\* The Diff Engine of PUT: the keys of validatedData other than id, updatedAt
\* and ownerId whose value is !== the stored one. Two arrays are never ===.
DiffKeys(existing, data) ==
  {k \in DOMAIN data \ {"id", "updatedAt", "ownerId"} :
     k = "tags" \/ existing.cols[k] # Some(data[k])}

Diff(existing, data) ==
  [k \in DiffKeys(existing, data) |->
     [old |-> existing.cols[k], new |-> Some(data[k])]]

(* ----------------------------- requests -------------------------------- *)

Idle == [op |-> "none"]

NoResp == [code |-> 0, op |-> "none"]

\* The bodies a client sends to POST /api/buyers.
JaneRoe == [fullName |-> "Jane Roe", phone |-> "9998887777", city |-> "Mohali",
            propertyType |-> "Plot", purpose |-> "Buy", timeline |-> "0-3m",
            source |-> "Website"]

CreateBodies == {JaneRoe, [JaneRoe EXCEPT !.propertyType = "Apartment"]}

\* The bodies a client sends to PUT /api/buyers/[id]: the fields it changes
\* and, or not, the updatedAt it read. 0 stands for a falsy updatedAt.
UpdateFields == {<<>>, [status |-> "Contacted"], [phone |-> "123"]}

UpdateBodies ==
  UpdateFields \cup {[updatedAt |-> t] @@ f : t \in 0..MaxTime, f \in UpdateFields}

Respond(p, r) ==
  /\ resp' = [resp EXCEPT ![p] = r]
  /\ pc' = [pc EXCEPT ![p] = "idle"]
  /\ req' = [req EXCEPT ![p] = Idle]

Goto(p, label, locals) ==
  /\ pc' = [pc EXCEPT ![p] = label]
  /\ req' = [req EXCEPT ![p] = locals]
  /\ resp' = resp

\* A request arrives and is run by the first idle handler. requireAuth has
\* found the user of the cookie.
Receive(p) ==
  /\ pc[p] = "idle"
  /\ \A q \in 1..(p - 1) : pc[q] # "idle"
  /\ nreq < MaxRequests
  /\ nreq' = nreq + 1

\* Mutant: the limiter is consulted after the buyer has been inserted.
RateLimitedLate(p, op) ==
  /\ Receive(p)
  /\ Respond(p, [code |-> 429, op |-> op])
  /\ buyers' = buyers \cup {BuyerRow(nextId, "u1", now, JaneRoe)}
  /\ nextId' = nextId + 1
  /\ UNCHANGED <<history, now, users>>

\* rateLimit answers success: false and the handler returns 429 at once.
RateLimited(p, op) ==
  /\ Receive(p)
  /\ Respond(p, [code |-> 429, op |-> op])
  /\ UNCHANGED <<buyers, history, nextId, now, users>>

(* ------------------------- POST /api/buyers ---------------------------- *)

PostBegin(p, user, body) ==
  /\ Receive(p)
  /\ LET v == createBuyerSchema(body)
     IN IF v.ok
        THEN Goto(p, "post_insert", [op |-> "POST", user |-> user, data |-> v.data])
        ELSE Respond(p, [code |-> 400, op |-> "POST", issues |-> v.issues])
  /\ UNCHANGED <<buyers, history, nextId, now, users>>

PostInsert(p) ==
  /\ pc[p] = "post_insert"
  /\ buyers' = buyers \cup {BuyerRow(nextId, req[p].user, now, req[p].data)}
  /\ nextId' = nextId + 1
  /\ Goto(p, "post_history", [req[p] EXCEPT !.op = "POST"] @@ [newId |-> nextId])
  /\ UNCHANGED <<history, now, nreq, users>>

PostHistory(p) ==
  /\ pc[p] = "post_history"
  /\ history' = Append(history, HistoryRow(req[p].newId, req[p].user, CreatedDiff))
  /\ Respond(p, [code |-> 201, op |-> "POST", id |-> req[p].newId])
  /\ UNCHANGED <<buyers, nextId, now, nreq, users>>

\* A statement of POST throws (the connection drops, a constraint fails): the
\* catch block answers 500 and whatever was written before stays written.
PostFail(p) ==
  /\ pc[p] \in {"post_insert", "post_history"}
  /\ Respond(p, [code |-> 500, op |-> "POST"])
  /\ UNCHANGED <<buyers, history, nextId, now, nreq, users>>

(* ----------------------- PUT /api/buyers/[id] -------------------------- *)

\* body.updatedAt as the client sent it: None when the body has no such key.
Token(body) == IF Has(body, "updatedAt") THEN Some(body["updatedAt"]) ELSE None

PutBegin(p, user, id, body) ==
  /\ Receive(p)
  /\ Goto(p, "put_select", [op |-> "PUT", user |-> user, id |-> id, body |-> body])
  /\ UNCHANGED <<buyers, history, nextId, now, users>>

\* if (body.updatedAt && new Date(body.updatedAt).getTime() !==
\*     existingBuyer[0].updatedAt.getTime())
Conflict(body, existing) ==
  /\ Has(body, "updatedAt")
  /\ body["updatedAt"] # 0
  /\ body["updatedAt"] # existing.updatedAt

\* {...body, id, updatedAt: existingBuyer[0].updatedAt}
Merged(body, id, existing) ==
  [k \in DOMAIN body \cup {"id", "updatedAt"} |->
     IF k = "id" THEN id
     ELSE IF k = "updatedAt" THEN existing.updatedAt ELSE body[k]]

\* From the select of the existing buyer to the point where the update
\* statement is sent: ownership, concurrency check, validation, diff, and
\* new Date() for the updatedAt to write.
PutSelect(p) ==
  /\ pc[p] = "put_select"
  /\ LET r == req[p]
         found == SelectOwned(buyers, r.id, r.user)
         out == [code |-> 0, op |-> "PUT", id |-> r.id, token |-> Token(r.body)]
     IN IF found = {}
        THEN Respond(p, [out EXCEPT !.code = 404])
        ELSE LET existing == CHOOSE b \in found : TRUE
                 v == updateBuyerSchema(Merged(r.body, r.id, existing))
             IN IF Conflict(r.body, existing)
                THEN Respond(p, [out EXCEPT !.code = 409])
                ELSE IF ~v.ok
                THEN Respond(p, [out EXCEPT !.code = 400])
                ELSE Goto(p, "put_update",
                          r @@ [existing |-> existing, data |-> v.data,
                                diff |-> Diff(existing, v.data), ts |-> now])
  /\ UNCHANGED <<buyers, history, nextId, now, nreq, users>>

\* What a PUT that got as far as its update statement did: the updatedAt it
\* read (before) and wrote (after), whether the update changed a row (wrote),
\* whether its change set was non-empty (changed) and whether the history row
\* was inserted (hist).
PutOutcome(code, r, wrote, hist) ==
  [code |-> code, op |-> "PUT", id |-> r.id, token |-> Token(r.body),
   before |-> r.existing.updatedAt, after |-> r.ts, wrote |-> wrote,
   changed |-> DOMAIN r.diff # {}, hist |-> hist]

PutUpdate(p) ==
  /\ pc[p] = "put_update"
  /\ LET r == req[p]
         wrote == \E b \in buyers : b.id = r.id
     IN /\ buyers' = UpdateById(buyers, r.id, r.data, r.ts)
        /\ IF DOMAIN r.diff # {}
           THEN Goto(p, "put_history", r @@ [wrote |-> wrote])
           ELSE Respond(p, PutOutcome(200, r, wrote, FALSE))
  /\ UNCHANGED <<history, nextId, now, nreq, users>>

\* Mutant: the history row of an update replaces the latest row of the table.
PutHistoryUpsert(p) ==
  /\ pc[p] = "put_history"
  /\ \E b \in buyers : b.id = req[p].id
  /\ history' = IF history = <<>>
                THEN <<HistoryRow(req[p].id, req[p].user, req[p].diff)>>
                ELSE [history EXCEPT ![Len(history)] =
                        HistoryRow(req[p].id, req[p].user, req[p].diff)]
  /\ Respond(p, PutOutcome(200, req[p], req[p].wrote, TRUE))
  /\ UNCHANGED <<buyers, nextId, now, nreq, users>>

\* The insert of the history row needs the buyer it refers to (foreign key).
PutHistory(p) ==
  /\ pc[p] = "put_history"
  /\ \E b \in buyers : b.id = req[p].id
  /\ history' = Append(history, HistoryRow(req[p].id, req[p].user, req[p].diff))
  /\ Respond(p, PutOutcome(200, req[p], req[p].wrote, TRUE))
  /\ UNCHANGED <<buyers, nextId, now, nreq, users>>

\* A statement of PUT throws: the catch block answers 500 and whatever was
\* written before stays written.
PutFail(p) ==
  /\ pc[p] \in {"put_update", "put_history"}
  /\ Respond(p, PutOutcome(500, req[p],
                           pc[p] = "put_history" /\ req[p].wrote, FALSE))
  /\ UNCHANGED <<buyers, history, nextId, now, nreq, users>>

(* ---------------------- DELETE /api/buyers/[id] ------------------------ *)

DeleteBegin(p, user, id) ==
  /\ Receive(p)
  /\ Goto(p, "delete_select", [op |-> "DELETE", user |-> user, id |-> id])
  /\ UNCHANGED <<buyers, history, nextId, now, users>>

DeleteSelect(p) ==
  /\ pc[p] = "delete_select"
  /\ IF SelectOwned(buyers, req[p].id, req[p].user) = {}
     THEN Respond(p, [code |-> 404, op |-> "DELETE", id |-> req[p].id])
     ELSE Goto(p, "delete_delete", req[p])
  /\ UNCHANGED <<buyers, history, nextId, now, nreq, users>>

DeleteDelete(p) ==
  /\ pc[p] = "delete_delete"
  /\ buyers' = DeleteById(buyers, req[p].id)
  /\ history' = CascadeHistory(history, req[p].id)
  /\ Respond(p, [code |-> 200, op |-> "DELETE", id |-> req[p].id])
  /\ UNCHANGED <<nextId, now, nreq, users>>

(* ---------------------- POST /api/buyers/import ------------------------ *)

MaxImportRows == 200

\* Mutant: the blank lines are kept.
NonBlankAlways(line) == TRUE

\* text.split('\n').filter(line => line.trim()): a file is held as the
\* sequence of its lines, the blank ones included.
NonBlank(line) == Trim(line) # ""
Lines(file) == SelectSeq(file, NonBlank)

\* line.split(',').map(x => x.trim())
Cells(line) == MapTrim(SplitOn(line, ","))

\* headers.forEach((header, i) => { rowData[header] = values[i] || ''; })
RowData(headers, values) ==
  [h \in KeySet(headers) |->
     LET i == CHOOSE j \in 1..Len(headers) :
                /\ headers[j] = h
                /\ \A m \in (j + 1)..Len(headers) : headers[m] # h
     IN IF i <= Len(values) THEN values[i] ELSE ""]

\* Mutant: the ceiling is off by one.
TooManyRowsFrom200(dataRows) == Len(dataRows) >= MaxImportRows

\* if (dataRows.length > 200)
TooManyRows(dataRows) == Len(dataRows) > MaxImportRows

\* dataRows.forEach((row, index) => ...): the outcome of every data row, in
\* order, with the row number the handler reports for it.
RowResults(headers, dataRows) ==
  [i \in 1..Len(dataRows) |->
     LET v == csvImportRowSchema(RowData(headers, Cells(dataRows[i])))
     IN [ok |-> v.ok, data |-> v.data, row |-> (i - 1) + 2, message |-> v.issues]]

IsOk(r) == r.ok
IsError(r) == ~r.ok

\* Mutant: the row number counts neither the header nor from one.
ErrorEntryIndex(r) == [row |-> r.row - 2, message |-> r.message]

\* errors.push({row: index + 2, message: error.message})
ErrorEntry(r) == [row |-> r.row, message |-> r.message]

Errors(results) ==
  LET bad == SelectSeq(results, IsError)
  IN [i \in 1..Len(bad) |-> ErrorEntry(bad[i])]

\* Mutant: the valid rows are collected last row first.
ValidRowsReversed(results) ==
  LET good == SelectSeq(results, IsOk)
  IN [i \in 1..Len(good) |-> good[Len(good) + 1 - i].data]

ValidRows(results) ==
  LET good == SelectSeq(results, IsOk)
  IN [i \in 1..Len(good) |-> good[i].data]

\* Mutant: the valid rows are imported whatever the errors.
ImportRejectsNever(errors) == FALSE

\* if (errors.length > 0)
ImportRejects(errors) == Len(errors) > 0

ImportResp(code, error) ==
  [code |-> code, op |-> "IMPORT", error |-> error, errors |-> <<>>,
   validRows |-> 0, parsed |-> 0, imported |-> 0, batch |-> {}, written |-> 0]

\* The upload arrives: requireAuth, request.formData(), file.text().
ImportBegin(p, user, file) ==
  /\ pc[p] = "idle"
  /\ \A q \in 1..(p - 1) : pc[q] # "idle"
  /\ nreq < MaxImports
  /\ nreq' = nreq + 1
  /\ Goto(p, "import_parse", [op |-> "IMPORT", user |-> user, file |-> file])
  /\ UNCHANGED <<buyers, history, nextId, now, users>>

\* The handler past the size check: the rows are validated; with an error the
\* answer is 400 and the error list, without any the transaction begins.
ImportValidated(p, r, dataRows, errors, validRows) ==
  IF ImportRejects(errors)
  THEN Respond(p, [ImportResp(400, "Validation errors found") EXCEPT
                     !.errors = errors,
                     !.validRows = Len(validRows),
                     !.parsed = Len(dataRows)])
  ELSE Goto(p, "import_tx",
            [op |-> "IMPORT", user |-> r.user, file |-> r.file,
             validRows |-> validRows, parsed |-> Len(dataRows),
             txTime |-> now,
             tx |-> [buyers |-> <<>>, history |-> <<>>]])

ImportRows(p, r, dataRows, results) ==
  ImportValidated(p, r, dataRows, Errors(results), ValidRows(results))

\* From the split of the text to the start of the transaction. parsed counts
\* the rows handed to csvImportRowSchema.parse.
ImportParse(p) ==
  /\ pc[p] = "import_parse"
  /\ LET r == req[p]
         lines == Lines(r.file)
     IN IF Len(lines) = 0
        THEN Respond(p, ImportResp(400, "Empty file"))
        ELSE IF TooManyRows(Tail(lines))
        THEN Respond(p, ImportResp(400, "Maximum 200 rows allowed"))
        ELSE ImportRows(p, r, Tail(lines), RowResults(Cells(lines[1]), Tail(lines)))
  /\ UNCHANGED <<buyers, history, nextId, now, nreq, users>>

\* tx.insert(buyers) for the next valid row: written inside the transaction,
\* seen by no other connection until the commit. The default of updatedAt is
\* the time the transaction began.
ImportInsertBuyer(p) ==
  /\ pc[p] = "import_tx"
  /\ LET r == req[p]
         n == Len(r.tx.buyers)
     IN /\ n < Len(r.validRows)
        /\ Len(r.tx.history) = n
        /\ Goto(p, "import_tx",
                [r EXCEPT !.tx.buyers =
                   Append(@, BuyerRow(nextId, r.user, r.txTime, r.validRows[n + 1]))])
  /\ nextId' = nextId + 1
  /\ UNCHANGED <<buyers, history, now, nreq, users>>

\* tx.insert(buyerHistory) for the buyer just inserted.
ImportInsertHistory(p) ==
  /\ pc[p] = "import_tx"
  /\ LET r == req[p]
         n == Len(r.tx.buyers)
     IN /\ Len(r.tx.history) < n
        /\ Goto(p, "import_tx",
                [r EXCEPT !.tx.history =
                   Append(@, HistoryRow(r.tx.buyers[n].id, r.user, ImportedDiff))])
  /\ UNCHANGED <<buyers, history, nextId, now, nreq, users>>

\* db.transaction(callback), callback returned: what the statements of the
\* transaction wrote becomes part of the tables.
TxCommit(tables, tx) ==
  [buyers |-> tables.buyers \cup {tx.buyers[i] : i \in 1..Len(tx.buyers)},
   history |-> tables.history \o tx.history]

\* Mutant: the inserts run outside a transaction and stay when one throws.
TxRollbackKeepsWritten(tables, tx) == TxCommit(tables, tx)

\* db.transaction(callback), callback threw: the tables are as they were.
TxRollback(tables, tx) == tables

Tables == [buyers |-> buyers, history |-> history]

\* The ids of the buyers a transaction has inserted so far.
BatchIds(tx) == {tx.buyers[i].id : i \in 1..Len(tx.buyers)}

ImportCommit(p) ==
  /\ pc[p] = "import_tx"
  /\ LET r == req[p]
         after == TxCommit(Tables, r.tx)
     IN /\ Len(r.tx.buyers) = Len(r.validRows)
        /\ Len(r.tx.history) = Len(r.validRows)
        /\ buyers' = after.buyers
        /\ history' = after.history
        /\ Respond(p, [ImportResp(200, "") EXCEPT
                         !.parsed = r.parsed, !.imported = Len(r.tx.buyers),
                         !.batch = BatchIds(r.tx)])
  /\ UNCHANGED <<nextId, now, nreq, users>>

\* A statement of the transaction (an insert, or the commit) throws; the
\* outer catch answers 500.
ImportFail(p) ==
  /\ pc[p] = "import_tx"
  /\ LET r == req[p]
         after == TxRollback(Tables, r.tx)
     IN /\ buyers' = after.buyers
        /\ history' = after.history
        /\ Respond(p, [ImportResp(500, "Failed to import CSV") EXCEPT
                         !.parsed = r.parsed, !.batch = BatchIds(r.tx),
                         !.written = Len(r.tx.buyers) + Len(r.tx.history)])
  /\ UNCHANGED <<nextId, now, nreq, users>>

\* The files a client uploads.
FullHeader ==
  "fullName,email,phone,city,propertyType,bhk,purpose,budgetMin,budgetMax,timeline,source,notes,tags,status"

MinHeader == "fullName,phone,city,propertyType,purpose,timeline,source"

PlotLine == "Jane Roe,,9998887777,Mohali,Plot,,Buy,,,0-3m,Website,,,New"
FlatLine ==
  "John Doe,john@example.com,1234567890,Chandigarh,Apartment,2,Buy,1000000,2000000,3-6m,Website,2BHK,urgent,New"
BadPhoneLine == "Bad Phone,,123,Mohali,Plot,,Buy,,,0-3m,Website,,,New"
BlankLine == "  "
ShortLine == "x"

MinPlotLine == "Jane Roe,9998887777,Mohali,Plot,Buy,0-3m,Website"
MinBadLine == "J,9998887777,Mohali,Plot,Buy,0-3m,Website"

SeqsUpTo(S, n) == UNION {[1..m -> S] : m \in 0..n}

Repeat(line, n) == [i \in 1..n |-> line]

Files ==
  {<<>>, <<BlankLine, BlankLine>>, <<FullHeader, FlatLine, PlotLine>>}
    \cup {<<FullHeader>> \o rows :
            rows \in SeqsUpTo({PlotLine, BadPhoneLine, BlankLine}, MaxRows)}
    \cup {<<MinHeader>> \o rows : rows \in SeqsUpTo({MinPlotLine, MinBadLine}, MaxRows)}
    \cup {<<FullHeader>> \o Repeat(ShortLine, MaxImportRows),
          <<FullHeader>> \o Repeat(ShortLine, MaxImportRows + 1),
          <<FullHeader>> \o Repeat(PlotLine, MaxImportRows + 1)}

(* ------------------------------ clock ---------------------------------- *)

\* Time passes between two steps, or does not: two statements can fall into
\* the same millisecond.
Tick ==
  /\ now < MaxTime
  /\ now' = now + 1
  /\ UNCHANGED <<buyers, history, nextId, nreq, pc, req, resp, users>>

(* --------------------------- specification ----------------------------- *)

Init ==
  /\ users = Accounts
  /\ buyers = {}
  /\ history = <<>>
  /\ nextId = 1
  /\ now = 1
  /\ nreq = 0
  /\ pc = [p \in Procs |-> "idle"]
  /\ req = [p \in Procs |-> Idle]
  /\ resp = [p \in Procs |-> NoResp]

Next ==
  \/ \E p \in Procs, op \in {"POST", "PUT"} : RateLimited(p, op)
  \/ \E p \in Procs, user \in Users, body \in CreateBodies : PostBegin(p, user, body)
  \/ \E p \in Procs : PostInsert(p)
  \/ \E p \in Procs : PostHistory(p)
  \/ \E p \in Procs : PostFail(p)
  \/ \E p \in Procs, user \in Users, id \in 1..nextId, body \in UpdateBodies :
       PutBegin(p, user, id, body)
  \/ \E p \in Procs : PutSelect(p)
  \/ \E p \in Procs : PutUpdate(p)
  \/ \E p \in Procs : PutHistory(p)
  \/ \E p \in Procs : PutFail(p)
  \/ \E p \in Procs, user \in Users, id \in 1..nextId : DeleteBegin(p, user, id)
  \/ \E p \in Procs : DeleteSelect(p)
  \/ \E p \in Procs : DeleteDelete(p)
  \/ Tick

Spec == Init /\ [][Next]_vars

\* The import handler alone, one upload after the other, starting from an
\* empty database.
NextImport ==
  \/ \E user \in Users, file \in Files : ImportBegin(1, user, file)
  \/ ImportParse(1)
  \/ ImportInsertBuyer(1)
  \/ ImportInsertHistory(1)
  \/ ImportCommit(1)
  \/ ImportFail(1)
  \/ Tick

SpecImport == Init /\ [][NextImport]_vars

\* The create and update handlers alone on one handler, one request after
\* the other, with a wider choice of bodies: a buyer with both budgets, and
\* updates of the property type and of one budget, an update that repeats
\* the stored status and tags, and an update whose body names another id and
\* another owner.
BudgetedRoe == JaneRoe @@ [budgetMin |-> 2, budgetMax |-> 3]

CreateBodiesSeq == {JaneRoe, BudgetedRoe}

UpdateFieldsSeq ==
  UpdateFields \cup {[propertyType |-> "Apartment"], [budgetMax |-> 1],
                     [status |-> "New", tags |-> <<>>],
                     [id |-> 2, ownerId |-> "u2", status |-> "Contacted"]}

UpdateBodiesSeq ==
  {[updatedAt |-> t] @@ f : t \in 1..MaxTime, f \in UpdateFieldsSeq}

NextUpdate ==
  \/ \E op \in {"POST", "PUT"} : RateLimited(1, op)
  \/ \E user \in Users, body \in CreateBodiesSeq : PostBegin(1, user, body)
  \/ PostInsert(1)
  \/ PostHistory(1)
  \/ PostFail(1)
  \/ \E user \in Users, id \in 1..nextId, body \in UpdateBodiesSeq :
       PutBegin(1, user, id, body)
  \/ PutSelect(1)
  \/ PutUpdate(1)
  \/ PutHistory(1)
  \/ PutFail(1)
  \/ Tick

SpecUpdate == Init /\ [][NextUpdate]_vars

\* The three schemas applied to one input, as the unit tests apply them. A
\* case names the fields the tests vary: the property type, the bhk and the
\* two budgets, each budget written as a CSV cell ("" when it is absent).
MaxBudget == 2

BudgetCells == {""} \cup {ToString(n) : n \in 0..MaxBudget}

ValidateCases ==
  [propertyType : propertyTypeEnum, bhk : {"", "2"},
   budgetMin : BudgetCells, budgetMax : BudgetCells]

\* The object handed to createBuyerSchema: an absent field has no key, a
\* budget is a number.
CreateBody(c) ==
  LET keys == DOMAIN JaneRoe \cup {k \in {"bhk", "budgetMin", "budgetMax"} : c[k] # ""}
  IN [k \in keys |->
        IF k \in {"budgetMin", "budgetMax"} THEN ParseInt(c[k]).val
        ELSE IF k \in {"propertyType", "bhk"} THEN c[k] ELSE JaneRoe[k]]

\* The object PUT hands to updateBuyerSchema: the body, the id of the path
\* and the stored updatedAt.
UpdateBody(c) == Merged(CreateBody(c), 1, [updatedAt |-> 1])

\* The rowData of a line under the full header: every cell is a string, the
\* cell of an absent field is ''.
CsvRow(c) ==
  [k \in KeySet(CsvSchemaKeys) |->
     IF k \in {"propertyType", "bhk", "budgetMin", "budgetMax"} THEN c[k]
     ELSE IF k \in DOMAIN JaneRoe THEN JaneRoe[k]
     ELSE IF k = "status" THEN "New" ELSE ""]

ParseResult(p, schema, v) ==
  /\ pc[p] = "parse"
  /\ resp' = [resp EXCEPT ![p] = [code |-> 0, op |-> schema, result |-> v]]
  /\ UNCHANGED <<buyers, history, nextId, now, nreq, pc, req, users>>

ParseCreate(p) ==
  ParseResult(p, "createBuyerSchema", createBuyerSchema(CreateBody(req[p].input)))

ParseUpdate(p) ==
  ParseResult(p, "updateBuyerSchema", updateBuyerSchema(UpdateBody(req[p].input)))

ParseCsv(p) ==
  ParseResult(p, "csvImportRowSchema", csvImportRowSchema(CsvRow(req[p].input)))

\* The record createBuyerSchema returned is handed to createBuyerSchema again.
ParseCreateAgain(p) ==
  /\ pc[p] = "parse"
  /\ resp[p].op = "createBuyerSchema"
  /\ resp[p].result.ok
  /\ resp' = [resp EXCEPT ![p] =
                [code |-> 0, op |-> "createBuyerSchema twice",
                 first |-> resp[p].result,
                 result |-> createBuyerSchema(resp[p].result.data)]]
  /\ UNCHANGED <<buyers, history, nextId, now, nreq, pc, req, users>>

InitValidate ==
  /\ users = Accounts
  /\ buyers = {}
  /\ history = <<>>
  /\ nextId = 1
  /\ now = 1
  /\ nreq = 0
  /\ pc = [p \in Procs |-> IF p = 1 THEN "parse" ELSE "idle"]
  /\ \E c \in ValidateCases :
       req = [p \in Procs |-> IF p = 1 THEN [op |-> "PARSE", input |-> c] ELSE Idle]
  /\ resp = [p \in Procs |-> NoResp]

NextValidate ==
  \/ ParseCreate(1)
  \/ ParseUpdate(1)
  \/ ParseCsv(1)
  \/ ParseCreateAgain(1)

SpecValidate == InitValidate /\ [][NextValidate]_vars

\* Create, update and import on one handler, one request after the other, in
\* any order: an upload can follow other requests.
ImportArrive(p, user, file) ==
  /\ Receive(p)
  /\ Goto(p, "import_parse", [op |-> "IMPORT", user |-> user, file |-> file])
  /\ UNCHANGED <<buyers, history, nextId, now, users>>

LedgerFiles == {<<FullHeader, FlatLine, PlotLine>>, <<FullHeader, BadPhoneLine>>}

LedgerUpdates == {[updatedAt |-> t] @@ f : t \in 1..MaxTime, f \in UpdateFields}

NextLedger ==
  \/ \E user \in Users : PostBegin(1, user, JaneRoe)
  \/ PostInsert(1)
  \/ PostHistory(1)
  \/ PostFail(1)
  \/ \E user \in Users, id \in 1..nextId, body \in LedgerUpdates :
       PutBegin(1, user, id, body)
  \/ PutSelect(1)
  \/ PutUpdate(1)
  \/ PutHistory(1)
  \/ PutFail(1)
  \/ \E user \in Users, file \in LedgerFiles : ImportArrive(1, user, file)
  \/ ImportParse(1)
  \/ ImportInsertBuyer(1)
  \/ ImportInsertHistory(1)
  \/ ImportCommit(1)
  \/ ImportFail(1)
  \/ Tick

SpecLedger == Init /\ [][NextLedger]_vars

(* ----------------------- GET /api/buyers/export ------------------------ *)

\* field.replace(/"/g, '""')
RECURSIVE DoubleQuotes(_)
DoubleQuotes(s) ==
  IF s = "" THEN ""
  ELSE (IF CharAt(s, 1) = "\"" THEN "\"\"" ELSE CharAt(s, 1))
         \o DoubleQuotes(SubSeq(s, 2, Len(s)))

\* xs.join(sep)
RECURSIVE JoinWith(_, _)
JoinWith(xs, sep) ==
  IF xs = <<>> THEN ""
  ELSE IF Len(xs) = 1 THEN xs[1]
  ELSE xs[1] \o sep \o JoinWith(Tail(xs), sep)

\* The text of one field of an exported row: `x || ''` for email, bhk and the
\* budgets (NULL, '' and 0 give ''), the quotes of notes doubled, the tags
\* joined with ';', the other fields as they are stored.
FieldText(b, k) ==
  LET v == b.cols[k]
  IN CASE k \in {"email", "bhk"} -> IF v = None THEN "" ELSE v[1]
       [] k \in {"budgetMin", "budgetMax"} ->
            IF v = None \/ v[1] = 0 THEN "" ELSE ToString(v[1])
       [] k = "notes" -> DoubleQuotes(IF v = None THEN "" ELSE v[1])
       [] k = "tags" -> JoinWith(IF v = None THEN <<>> ELSE v[1], ";")
       [] OTHER -> v[1]

\* The headers of the export: the keys of the row schema, in its order.
ExportHeaders == CsvSchemaKeys

\* [...].map(field => `"${field}"`).join(',')
ExportLine(b) ==
  JoinWith([i \in 1..Len(ExportHeaders) |->
              "\"" \o FieldText(b, ExportHeaders[i]) \o "\""], ",")

\* select().from(buyers).orderBy(buyers.updatedAt), no filter given: every
\* row of the table, of every owner, by ascending updatedAt; rows with the
\* same updatedAt come in any order.
OrderedByUpdatedAt(table) ==
  {rows \in [1..Cardinality(table) -> table] :
     /\ \A i, j \in 1..Cardinality(table) : i # j => rows[i] # rows[j]
     /\ \A i \in 2..Cardinality(table) : rows[i - 1].updatedAt <= rows[i].updatedAt}

ExportGet(p, user) ==
  /\ Receive(p)
  /\ \E buyersList \in OrderedByUpdatedAt(buyers) :
       resp' = [resp EXCEPT ![p] =
                  [code |-> 200, op |-> "EXPORT",
                   ids |-> [i \in 1..Len(buyersList) |-> buyersList[i].id],
                   csv |-> <<JoinWith(ExportHeaders, ",")>>
                             \o [i \in 1..Len(buyersList) |-> ExportLine(buyersList[i])]]]
  /\ UNCHANGED <<buyers, history, nextId, now, pc, req, users>>

\* The text the export returned is uploaded to the import.
Reimport(p, user) ==
  /\ Receive(p)
  /\ resp[p].op = "EXPORT"
  /\ Goto(p, "import_parse",
          [op |-> "IMPORT", user |-> user, file |-> resp[p].csv,
           ids |-> resp[p].ids])
  /\ UNCHANGED <<buyers, history, nextId, now, users>>

\* The buyers a table holds before an export: one out of a choice of names,
\* notes, tags and budgets, and or not a second one.
QuotedName == "Jo \"J\" Roe"

ExportBodies ==
  {[k \in DOMAIN JaneRoe \cup {"notes", "tags"} \cup extra |->
      IF k = "fullName" THEN name
      ELSE IF k = "notes" THEN notes
      ELSE IF k = "tags" THEN tags
      ELSE IF k = "budgetMin" THEN 0
      ELSE IF k = "budgetMax" THEN 2
      ELSE IF k = "email" THEN "j@x.io"
      ELSE JaneRoe[k]] :
     name \in {"Jane Roe", QuotedName},
     notes \in {"", "a \"b\""},
     tags \in {<<>>, <<"x", "y">>, <<"q\"t">>},
     extra \in {{}, {"email"}, {"budgetMin", "budgetMax"}}}

StoredTables ==
  {{BuyerRow(1, "u1", t, createBuyerSchema(body).data)} :
     t \in 1..MaxTime, body \in ExportBodies}
    \cup {{BuyerRow(1, "u1", t, createBuyerSchema(body).data),
           BuyerRow(2, "u2", u, createBuyerSchema(BudgetedRoe).data)} :
            t \in 1..MaxTime, u \in 1..MaxTime, body \in ExportBodies}

InitExport ==
  /\ users = Accounts
  /\ buyers \in StoredTables
  /\ history = <<>>
  /\ nextId = 3
  /\ now = MaxTime
  /\ nreq = 0
  /\ pc = [p \in Procs |-> "idle"]
  /\ req = [p \in Procs |-> Idle]
  /\ resp = [p \in Procs |-> NoResp]

NextExport ==
  \/ \E user \in Users : ExportGet(1, user)
  \/ \E user \in Users : Reimport(1, user)
  \/ ImportParse(1)

SpecExport == InitExport /\ [][NextExport]_vars

(* ------------------------ POST /api/auth/login ------------------------- *)

\* The emails a client signs in with; '' stands for a missing email.
LoginEmails == {"", "a@y.io", "b@y.io"}

\* The id the database generates for the next user row.
NewUserId == "u" \o ToString(Cardinality(users) + 1)

LoginResp(code, email, id) ==
  [code |-> code, op |-> "LOGIN", email |-> email, user |-> id]

\* if (!email) return 400; otherwise createDemoUser is called.
LoginBegin(p, email) ==
  /\ Receive(p)
  /\ IF email = ""
     THEN Respond(p, LoginResp(400, email, None))
     ELSE Goto(p, "login_select", [op |-> "LOGIN", email |-> email])
  /\ UNCHANGED <<buyers, history, nextId, now, users>>

\* createDemoUser, its select: the row found is returned and the handler
\* answers with it; limit(1) returns any one of the rows with that email.
LoginSelect(p) ==
  /\ pc[p] = "login_select"
  /\ LET existingUser == {u \in users : u.email = req[p].email}
     IN IF existingUser = {}
        THEN Goto(p, "login_insert", req[p])
        ELSE \E u \in existingUser :
               Respond(p, LoginResp(200, req[p].email, Some(u.id)))
  /\ UNCHANGED <<buyers, history, nextId, now, nreq, users>>

\* createDemoUser, its insert, on a table that accepts the row.
LoginInsert(p) ==
  /\ pc[p] = "login_insert"
  /\ users' = users \cup {UserRow(NewUserId, req[p].email)}
  /\ Respond(p, LoginResp(200, req[p].email, Some(NewUserId)))
  /\ UNCHANGED <<buyers, history, nextId, now, nreq>>

\* createDemoUser, its insert, on a table whose email column is unique: a
\* second row with the email is refused, the insert throws and the catch
\* block of the handler answers 500.
LoginInsertRefused(p) ==
  /\ pc[p] = "login_insert"
  /\ \E u \in users : u.email = req[p].email
  /\ Respond(p, LoginResp(500, req[p].email, None))
  /\ UNCHANGED <<buyers, history, nextId, now, nreq, users>>

\* The login handler alone, on a database without users.
InitLogin ==
  /\ users = {}
  /\ buyers = {}
  /\ history = <<>>
  /\ nextId = 1
  /\ now = 1
  /\ nreq = 0
  /\ pc = [p \in Procs |-> "idle"]
  /\ req = [p \in Procs |-> Idle]
  /\ resp = [p \in Procs |-> NoResp]

NextLogin ==
  \/ \E p \in Procs, email \in LoginEmails : LoginBegin(p, email)
  \/ \E p \in Procs : LoginSelect(p)
  \/ \E p \in Procs : LoginInsert(p)
  \/ \E p \in Procs : LoginInsertRefused(p)

SpecLogin == InitLogin /\ [][NextLogin]_vars

(* ------------------------------ claims --------------------------------- *)

Finished(p, op, code) == resp[p].op = op /\ resp[p].code = code

\* C1: of two updates of the same record that carry the same prior updatedAt,
\* at most one succeeds, also when each of them writes an updatedAt that
\* differs from the one they carry.
C1_NoLostUpdate ==
  \A p, q \in Procs :
    (/\ p # q
     /\ Finished(p, "PUT", 200) /\ Finished(q, "PUT", 200)
     /\ resp[p].wrote /\ resp[q].wrote
     /\ resp[p].id = resp[q].id
     /\ resp[p].after # resp[p].before /\ resp[q].after # resp[q].before)
    => ~(resp[p].token = resp[q].token /\ resp[p].token = Some(resp[p].before))

\* C2: an update by the owner whose body carries an updatedAt that differs
\* from the stored one is answered 409 at the concurrency check, so no such
\* request ever stands before its update statement or its history insert.
C2_StaleUpdateRejected ==
  \A p \in Procs :
    pc[p] \in {"put_update", "put_history"} =>
      (Has(req[p].body, "updatedAt") =>
         req[p].body["updatedAt"] = req[p].existing.updatedAt)

\* C3: every successful update leaves a new updatedAt token in the record,
\* and once an update that carried T has succeeded no other update of the
\* record that carries T succeeds.
C3_FreshToken ==
  /\ \A p \in Procs :
       (Finished(p, "PUT", 200) /\ resp[p].wrote) => resp[p].after # resp[p].before
  /\ \A p, q \in Procs :
       (/\ p # q
        /\ Finished(p, "PUT", 200) /\ Finished(q, "PUT", 200)
        /\ resp[p].id = resp[q].id
        /\ resp[p].token # None)
       => resp[p].token # resp[q].token

\* C4: once the POST that inserted a buyer has returned, the buyer is in the
\* buyers table if and only if its creation entry is in the history table.
C4_CreateAtomic ==
  /\ \A b \in buyers :
       (\A p \in Procs : ~(pc[p] = "post_history" /\ req[p].newId = b.id))
       => \E i \in 1..Len(history) :
            history[i].buyerId = b.id /\ history[i].diff = CreatedDiff
  /\ \A i \in 1..Len(history) :
       history[i].diff = CreatedDiff => \E b \in buyers : b.id = history[i].buyerId

\* C5: a PUT with a non-empty change set that has returned, with 200 or with
\* 500, has written the new values if and only if it has inserted the
\* history entry for them.
C5_UpdateAtomic ==
  \A p \in Procs :
    (resp[p].op = "PUT" /\ resp[p].code \in {200, 500} /\ resp[p].changed)
    => (resp[p].wrote <=> resp[p].hist)

\* The data rows of a file and whether the k-th of them passes the row schema.
DataRows(file) == Tail(Lines(file))
Header(file) == Cells(Lines(file)[1])
RowValid(file, k) ==
  csvImportRowSchema(RowData(Header(file), Cells(DataRows(file)[k]))).ok
InvalidRows(file) ==
  IF Lines(file) = <<>> THEN {}
  ELSE {k \in 1..Len(DataRows(file)) : ~RowValid(file, k)}

\* The step in which p runs the synchronous part of the import handler.
ParseStep(p) == pc[p] = "import_parse" /\ pc'[p] # "import_parse"

\* C6: an import whose transaction failed leaves none of the buyers it had
\* inserted, and no history entry of them, in the tables; nor is any of them
\* there while the transaction runs.
C6_ImportRollback ==
  \A p \in Procs :
    LET batch == IF pc[p] = "import_tx" THEN BatchIds(req[p].tx)
                 ELSE IF Finished(p, "IMPORT", 500) THEN resp[p].batch ELSE {}
    IN /\ \A b \in buyers : b.id \notin batch
       /\ \A i \in 1..Len(history) : history[i].buyerId \notin batch

C6_Witness ==
  \E p \in Procs : Finished(p, "IMPORT", 500) /\ resp[p].written >= 3

\* C7: when a data row of the file fails validation, the handler answers 400
\* in the step that validates and the tables are as before: no row of the
\* file is inserted, however many rows validated.
C7_NoPartialImport ==
  [][\A p \in Procs :
       (ParseStep(p) /\ InvalidRows(req[p].file) # {})
       => /\ pc'[p] = "idle"
          /\ resp'[p].code = 400
          /\ resp'[p].imported = 0
          /\ buyers' = buyers /\ history' = history /\ nextId' = nextId]_vars

C7_Witness ==
  \E p \in Procs :
    /\ resp[p].op = "IMPORT"
    /\ resp[p].error = "Validation errors found"
    /\ resp[p].validRows >= 2
    /\ buyers = {} /\ history = <<>>

\* C8: the error list names the invalid data rows and only them, once each,
\* in ascending order, the k-th data row as row k + 1, and validRows is the
\* number of data rows less the number of errors.
C8_ErrorList ==
  [][\A p \in Procs :
       (ParseStep(p) /\ InvalidRows(req[p].file) # {}
          /\ Len(DataRows(req[p].file)) <= MaxImportRows)
       => LET errors == resp'[p].errors
              bad == InvalidRows(req[p].file)
          IN /\ Len(errors) = Cardinality(bad)
             /\ {errors[j].row : j \in 1..Len(errors)} = {k + 1 : k \in bad}
             /\ \A j \in 2..Len(errors) : errors[j - 1].row < errors[j].row
             /\ resp'[p].validRows = Len(DataRows(req[p].file)) - Len(errors)]_vars

C8_Witness ==
  \E p \in Procs :
    /\ resp[p].op = "IMPORT"
    /\ Len(resp[p].errors) = 2
    /\ resp[p].errors[1].row = 2 /\ resp[p].errors[2].row = 4
    /\ resp[p].validRows = 1

\* C9: a file of more than 200 data rows is answered 400 with no row handed
\* to the validator and nothing inserted; a file of exactly 200 data rows is
\* not answered with the size error.
C9_BatchCeiling ==
  [][\A p \in Procs :
       (ParseStep(p) /\ Lines(req[p].file) # <<>>) =>
         LET n == Len(DataRows(req[p].file)) IN
           /\ n > 200 =>
                /\ pc'[p] = "idle"
                /\ resp'[p].code = 400
                /\ resp'[p].error = "Maximum 200 rows allowed"
                /\ resp'[p].parsed = 0
                /\ buyers' = buyers /\ history' = history /\ nextId' = nextId
           /\ n = 200 =>
                \/ pc'[p] = "import_tx"
                \/ resp'[p].error # "Maximum 200 rows allowed"]_vars

C9_Witness ==
  \E p \in Procs :
    /\ resp[p].op = "IMPORT"
    /\ resp[p].error = "Maximum 200 rows allowed"
    /\ resp[p].parsed = 0

\* A file whose header is the seven required columns and whose rows hold
\* valid values for them, with a property type that needs no bhk.
MinimalValid(file) ==
  /\ Len(Lines(file)) >= 2
  /\ Header(file) = <<"fullName", "phone", "city", "propertyType", "purpose",
                      "timeline", "source">>
  /\ \A k \in 1..Len(DataRows(file)) :
       LET row == RowData(Header(file), Cells(DataRows(file)[k]))
       IN /\ \A c \in RequiredKeys : CsvFieldOk(c, row[c])
          /\ row["propertyType"] \in {"Plot", "Office", "Retail"}

\* C10: a file with only the seven required columns and valid rows passes
\* validation: every row goes on to the transaction that inserts it.
C10_RequiredColumnsSuffice ==
  [][\A p \in Procs :
       (ParseStep(p) /\ MinimalValid(req[p].file))
       => /\ pc'[p] = "import_tx"
          /\ Len(req'[p].validRows) = Len(DataRows(req[p].file))]_vars

\* The select of a PUT or a DELETE finds no buyer with the id of the request
\* that the user of the request owns.
NotOwned(p) ==
  ~\E b \in buyers : b.id = req[p].id /\ b.ownerId = req[p].user

\* C11: a step that changes or removes a buyer row is the update or the
\* delete statement of a request whose user owns the row; and a PUT or a
\* DELETE whose select finds no buyer with that id owned by its user answers
\* 404 in that step, with the buyers and history tables as before.
C11_OwnerOnly ==
  [][/\ \A b \in buyers :
          b \notin buyers' =>
            \E p \in Procs :
              /\ pc[p] \in {"put_update", "delete_delete"}
              /\ pc'[p] # pc[p]
              /\ req[p].id = b.id
              /\ req[p].user = b.ownerId
     /\ \A p \in Procs :
          (pc[p] \in {"put_select", "delete_select"} /\ pc'[p] # pc[p] /\ NotOwned(p))
          => /\ pc'[p] = "idle"
             /\ resp'[p].code = 404
             /\ buyers' = buyers /\ history' = history]_vars

\* The requests ran one after the other on handler 1 and the last of them, a
\* PUT for a buyer that is stored, was answered 404: its user is not the owner.
C11_Witness ==
  /\ \A p \in Procs : pc[p] = "idle"
  /\ resp[2] = NoResp
  /\ Finished(1, "PUT", 404)
  /\ \E b \in buyers : b.id = resp[1].id

\* A request that has been answered with success.
Succeeded(p) ==
  \/ Finished(p, "POST", 201)
  \/ Finished(p, "PUT", 200)
  \/ Finished(p, "IMPORT", 200)

Col(b, k) == b.cols[k]

\* C12: when no request is under way and the last one succeeded, every stored
\* buyer whose propertyType is Apartment or Villa has a bhk.
C12_BhkInvariant ==
  ((\A p \in Procs : pc[p] = "idle") /\ Succeeded(1))
  => \A b \in buyers :
       Col(b, "propertyType") \in {Some("Apartment"), Some("Villa")}
       => Col(b, "bhk") # None

\* C13: when no request is under way and the last one succeeded, every stored
\* buyer that has both budgets has budgetMax >= budgetMin.
C13_BudgetInvariant ==
  ((\A p \in Procs : pc[p] = "idle") /\ Succeeded(1))
  => \A b \in buyers :
       (Col(b, "budgetMin") # None /\ Col(b, "budgetMax") # None)
       => Col(b, "budgetMax")[1] >= Col(b, "budgetMin")[1]

\* What the schemas are applied to, and what a case says of its fields.
Case(p) == req[p].input
Parsed1(p, schema) == pc[p] = "parse" /\ resp[p].op = schema
NeedsBhk(c) == c.propertyType \in {"Apartment", "Villa"}
BhkGiven(c) == c.bhk # ""
BothBudgets(c) == c.budgetMin # "" /\ c.budgetMax # ""
MaxBelowMin(c) ==
  BothBudgets(c) /\ ParseInt(c.budgetMax).val < ParseInt(c.budgetMin).val

\* C14: with the other fields valid, createBuyerSchema and csvImportRowSchema
\* reject a pair of budgets if and only if both are present and
\* budgetMax < budgetMin, and then with the one issue on path budgetMax; the
\* pairs with a 0 included.
C14_BudgetPairs ==
  \A p \in Procs :
    (/\ Parsed1(p, "createBuyerSchema") \/ Parsed1(p, "csvImportRowSchema")
     /\ NeedsBhk(Case(p)) => BhkGiven(Case(p)))
    => /\ resp[p].result.ok <=> ~MaxBelowMin(Case(p))
       /\ ~resp[p].result.ok => resp[p].result.issues = <<"budgetMax">>

\* C15: with the other fields valid and no budget given, createBuyerSchema
\* and updateBuyerSchema reject an Apartment or a Villa without bhk with the
\* issue on path bhk, and accept a Plot, an Office or a Retail without bhk.
C15_BhkRule ==
  \A p \in Procs :
    (/\ Parsed1(p, "createBuyerSchema") \/ Parsed1(p, "updateBuyerSchema")
     /\ Case(p).budgetMin = "" /\ Case(p).budgetMax = ""
     /\ ~BhkGiven(Case(p)))
    => IF NeedsBhk(Case(p))
       THEN ~resp[p].result.ok /\ resp[p].result.issues = <<"bhk">>
       ELSE resp[p].result.ok

\* The fields of the payload of a PUT, and what the change set of the payload
\* against the stored record is to be: the fields whose value differs from
\* the stored one, each with the stored and the new value.
PayloadKeys(body) == DOMAIN body \ {"id", "updatedAt", "ownerId"}

ChangedKeys(existing, body) ==
  {k \in PayloadKeys(body) : Col(existing, k) # Some(body[k])}

ChangeSet(existing, body) ==
  [k \in ChangedKeys(existing, body) |->
     [old |-> Col(existing, k), new |-> Some(body[k])]]

NoOp(r) == ChangedKeys(r.existing, r.body) = {}

\* C16: a PUT whose payload changes no field of the stored record has an
\* empty change set when it sends its update statement, and never goes on to
\* insert a history entry.
C16_NoOpNoHistory ==
  \A p \in Procs :
    /\ (pc[p] = "put_update" /\ NoOp(req[p])) => DOMAIN req[p].diff = {}
    /\ pc[p] = "put_history" => ~NoOp(req[p])

\* C17: the change set a PUT has computed when it sends its update statement
\* is the change set of its payload against the record it read, and a PUT
\* answered 200 has inserted a history entry exactly when that set was not
\* empty.
C17_ChangeSet ==
  \A p \in Procs :
    /\ pc[p] \in {"put_update", "put_history"}
       => req[p].diff = ChangeSet(req[p].existing, req[p].body)
    /\ Finished(p, "PUT", 200) => (resp[p].changed <=> resp[p].hist)

\* The payload of a PUT holds a value that the rule of its field rejects.
InvalidPayload(body) ==
  \E k \in PayloadKeys(body) \cap Columns : ~CreateFieldOk(k, body[k])

\* The body of the PUT carries the updatedAt of the record its user owns.
TokenMatches(p) ==
  /\ Has(req[p].body, "updatedAt")
  /\ \E b \in buyers : /\ b.id = req[p].id
                       /\ b.ownerId = req[p].user
                       /\ b.updatedAt = req[p].body["updatedAt"]

\* C18: a PUT by the owner with the stored updatedAt whose payload fails
\* validation is answered 400 in the step that validates, with the buyers
\* table (values and updatedAt) and the history table as before.
C18_InvalidUpdateRejected ==
  [][\A p \in Procs :
       (/\ pc[p] = "put_select" /\ pc'[p] # pc[p]
        /\ TokenMatches(p)
        /\ InvalidPayload(req[p].body))
       => /\ pc'[p] = "idle"
          /\ resp'[p].code = 400
          /\ buyers' = buyers /\ history' = history]_vars

C18_Witness ==
  /\ \A p \in Procs : pc[p] = "idle"
  /\ Finished(1, "PUT", 400)
  /\ \E b \in buyers : b.id = resp[1].id /\ resp[1].token = Some(b.updatedAt)
  /\ Len(history) = Cardinality(buyers)

\* The step in which p receives a request and answers it 429.
RateLimitStep(p) ==
  /\ nreq' # nreq
  /\ pc[p] = "idle" /\ pc'[p] = "idle"
  /\ resp'[p].code = 429

\* C19: the step that answers a create or an update 429 is the step that
\* receives the request: it leaves the buyers and history tables and the id
\* generator as they were and reports no validation of the body; and a
\* handler that has gone past the limiter never answers 429.
C19_RateLimitFirst ==
  [][\A p \in Procs :
       /\ RateLimitStep(p)
          => /\ buyers' = buyers /\ history' = history /\ nextId' = nextId
             /\ ~Has(resp'[p], "issues")
       /\ (pc[p] # "idle" /\ pc'[p] = "idle") => resp'[p].code # 429]_vars

C19_Witness ==
  /\ Finished(1, "PUT", 429)
  /\ buyers # {}
  /\ history # <<>>

\* C20: a CSV row with a property type that needs no bhk whose email, bhk,
\* budgetMin, budgetMax, notes and tags cells are empty passes
\* csvImportRowSchema, and the parsed row has no email, no bhk, no budgetMin
\* and no budgetMax, and the empty list as tags.
C20_EmptyCells ==
  \A p \in Procs :
    (/\ Parsed1(p, "csvImportRowSchema")
     /\ ~NeedsBhk(Case(p)) /\ ~BhkGiven(Case(p))
     /\ Case(p).budgetMin = "" /\ Case(p).budgetMax = "")
    => /\ resp[p].result.ok
       /\ \A k \in {"email", "bhk", "budgetMin", "budgetMax"} :
            ~Has(resp[p].result.data, k)
       /\ resp[p].result.data["tags"] = <<>>

\* The step in which p leaves the label at and answers with code.
Answers(p, at, code) ==
  pc[p] = at /\ pc'[p] = "idle" /\ resp'[p].code = code

\* The step is one of the handler p.
Steps(p) == pc'[p] # pc[p] \/ req'[p] # req[p] \/ resp'[p] # resp[p]

\* C21: every step of a create, an import or an update keeps the history
\* rows there are, in their order; the step that answers a create 201 adds
\* one row, the commit of an import of n rows adds n, and of the steps of an
\* update only the last adds a row, and only one.
C21_AppendOnly ==
  [][/\ Len(history') >= Len(history)
     /\ SubSeq(history', 1, Len(history)) = history
     /\ \A p \in Procs :
          /\ Answers(p, "post_history", 201) => Len(history') = Len(history) + 1
          /\ (Steps(p) /\ pc[p] \in {"idle", "post_insert", "put_select",
                                     "put_update", "import_parse"})
             => history' = history
          /\ (Steps(p) /\ pc[p] = "put_history")
             => Len(history') <= Len(history) + 1
          /\ Answers(p, "import_tx", 200)
             => /\ resp'[p].imported = resp'[p].parsed
                /\ Len(history') = Len(history) + resp'[p].imported]_vars

\* A create, an import of two rows and an update have succeeded, in this
\* order.
C21_Witness ==
  /\ Len(history) = 4
  /\ history[1].diff = CreatedDiff
  /\ history[2].diff = ImportedDiff /\ history[3].diff = ImportedDiff
  /\ "tags" \in DOMAIN history[4].diff
  /\ Finished(1, "PUT", 200)

\* C22: the record createBuyerSchema returns for an input it accepts is
\* accepted by createBuyerSchema, which returns it unchanged, the defaults of
\* status and tags included.
C22_CreateIdempotent ==
  \A p \in Procs :
    resp[p].op = "createBuyerSchema twice"
    => /\ resp[p].result.ok
       /\ resp[p].result.data = resp[p].first.data

C22_Witness ==
  \E p \in Procs :
    /\ resp[p].op = "createBuyerSchema twice"
    /\ ~Has(CreateBody(Case(p)), "status") /\ ~Has(CreateBody(Case(p)), "tags")
    /\ resp[p].result.data["status"] = "New"
    /\ resp[p].result.data["tags"] = <<>>
    /\ Has(resp[p].result.data, "budgetMin")

\* The record the k-th data row of a file is parsed to.
ParsedRow(file, k) ==
  csvImportRowSchema(RowData(Header(file), Cells(DataRows(file)[k]))).data

\* C23: the step that answers an import 200 reports the number n of data
\* rows as imported, keeps the buyers there were and adds n of them, owned by
\* the user of the upload, the i-th in insertion order holding the values of
\* the i-th row, and appends n creation entries to the history, the i-th for
\* the i-th new buyer, made by that user.
C23_ImportAddsAll ==
  [][\A p \in Procs :
       Answers(p, "import_tx", 200) =>
         LET file == req[p].file
             user == req[p].user
             n == Len(DataRows(file))
             added == buyers' \ buyers
         IN /\ resp'[p].imported = n
            /\ buyers \subseteq buyers'
            /\ Cardinality(added) = n
            /\ \E first \in 1..nextId :
                 /\ \A i \in 1..n :
                      \E b \in added :
                        /\ b.id = first + i - 1
                        /\ b.ownerId = user
                        /\ b.cols = BuyerRow(0, user, 0, ParsedRow(file, i)).cols
                 /\ history' = history \o
                      [i \in 1..n |-> [buyerId |-> first + i - 1,
                                       changedBy |-> user,
                                       diff |-> ImportedDiff]]]_vars

C23_Witness ==
  /\ Finished(1, "IMPORT", 200)
  /\ resp[1].imported = 2
  /\ \E a, b \in buyers :
       /\ a.id < b.id
       /\ Col(a, "fullName") = Some("John Doe")
       /\ Col(b, "fullName") = Some("Jane Roe")
  /\ Len(history) = 2

\* Every line of the file is blank, or the file has no line.
AllBlank(file) == \A i \in 1..Len(file) : Trim(file[i]) = ""

\* C24: the import of a file without a non-blank line is answered 400
\* 'Empty file' in the step that reads it, with the tables and the id
\* generator as before.
C24_EmptyFile ==
  [][\A p \in Procs :
       (ParseStep(p) /\ AllBlank(req[p].file))
       => /\ pc'[p] = "idle"
          /\ resp'[p].code = 400
          /\ resp'[p].error = "Empty file"
          /\ buyers' = buyers /\ history' = history /\ nextId' = nextId]_vars

C24_Witness ==
  \E p \in Procs :
    /\ Finished(p, "IMPORT", 400)
    /\ resp[p].error = "Empty file"
    /\ resp[p].parsed = 0
    /\ buyers = {} /\ history = <<>>

\* The value of a field of a stored buyer as text, before any quoting: NULL
\* and a budget of 0 as '', the tags joined with ';'.
RawText(b, k) ==
  LET v == b.cols[k]
  IN CASE k \in {"email", "bhk", "notes"} -> IF v = None THEN "" ELSE v[1]
       [] k \in {"budgetMin", "budgetMax"} ->
            IF v = None \/ v[1] = 0 THEN "" ELSE ToString(v[1])
       [] k = "tags" -> JoinWith(IF v = None THEN <<>> ELSE v[1], ";")
       [] OTHER -> v[1]

\* A row whose every field is wrapped in quotes, the quotes inside doubled.
QuotedLine(b) ==
  JoinWith([i \in 1..Len(ExportHeaders) |->
              "\"" \o DoubleQuotes(RawText(b, ExportHeaders[i])) \o "\""], ",")

Stored(id) == CHOOSE b \in buyers : b.id = id

\* C25: the export holds, after the header, one row for each stored buyer, by
\* ascending updatedAt, and every field of every row is wrapped in double
\* quotes with the double quotes of its value doubled.
C25_ExportQuoting ==
  \A p \in Procs :
    resp[p].op = "EXPORT" =>
      LET ids == resp[p].ids
          csv == resp[p].csv
      IN /\ Len(ids) = Cardinality(buyers)
         /\ {ids[i] : i \in 1..Len(ids)} = {b.id : b \in buyers}
         /\ Len(csv) = 1 + Len(ids)
         /\ \A i \in 2..Len(ids) :
              Stored(ids[i - 1]).updatedAt <= Stored(ids[i]).updatedAt
         /\ \A i \in 1..Len(ids) : csv[i + 1] = QuotedLine(Stored(ids[i]))

\* The body of the PUT carries an updatedAt that is not the one of the record
\* its user owns.
Stale(p) ==
  /\ Has(req[p].body, "updatedAt")
  /\ \E b \in buyers : /\ b.id = req[p].id
                       /\ b.ownerId = req[p].user
                       /\ b.updatedAt # req[p].body["updatedAt"]

\* C26: the step of a PUT that reads the record answers 404 when the user
\* owns no buyer with that id, whatever the body, and answers 409, not 400,
\* when the owner sends a stale updatedAt with an invalid payload.
C26_CheckOrder ==
  [][\A p \in Procs :
       (pc[p] = "put_select" /\ pc'[p] # pc[p]) =>
         /\ NotOwned(p) => resp'[p].code = 404
         /\ (Stale(p) /\ InvalidPayload(req[p].body)) => resp'[p].code = 409]_vars

\* C27: a PUT gets as far as its update statement only when its body carried
\* an updatedAt equal to the one stored for the record when it was checked.
C27_TokenRequired ==
  [][\A p \in Procs :
       (pc[p] = "put_select" /\ pc'[p] = "put_update") => TokenMatches(p)]_vars

\* C29: the update statement of a PUT leaves the id and the owner of its
\* record as they were, changes no other record, and leaves every column
\* that the request body does not name with its stored value.
C29_Frame ==
  [][\A p \in Procs :
       (pc[p] = "put_update" /\ pc'[p] # pc[p]) =>
         \A b \in buyers :
           IF b.id # req[p].id
           THEN b \in buyers'
           ELSE \E c \in buyers' :
                  /\ c.id = b.id
                  /\ c.ownerId = b.ownerId
                  /\ \A k \in Columns \ PayloadKeys(req[p].body) :
                       c.cols[k] = b.cols[k]]_vars

\* C30: when the text an export produced is uploaded to the import, every
\* data row passes csvImportRowSchema and the record validated for row i has
\* the columns of the i-th exported buyer.
C30_RoundTrip ==
  [][\A p \in Procs :
       (ParseStep(p) /\ Has(req[p], "ids")) =>
         LET file == req[p].file
             ids == req[p].ids
         IN /\ InvalidRows(file) = {}
            /\ Len(DataRows(file)) = Len(ids)
            /\ \A i \in 1..Len(ids) :
                 BuyerRow(0, req[p].user, 0, ParsedRow(file, i)).cols
                   = Stored(ids[i]).cols]_vars

\* C28: the users table holds at most one row for an email, and the logins
\* answered for one email were all answered with the id of the same user.
C28_OneUserPerEmail ==
  /\ \A u, v \in users : u.email = v.email => u = v
  /\ \A p, q \in Procs :
       (/\ resp[p].op = "LOGIN" /\ resp[q].op = "LOGIN"
        /\ resp[p].email # "" /\ resp[p].email = resp[q].email)
         => /\ resp[p].code = 200
            /\ resp[p].user = resp[q].user

====
